---- MODULE Spec2Model ----
(***************************************************************************)
(* Model of the NYT Article Explorer web client: the search page script    *)
(* (searchArticles, updatePagination, changePage, handleFavorite, login),  *)
(* the API helpers (fetchArticles, getAuthHeaders, addToFavorites,         *)
(* fetchFavorites, removeFromFavoritesApi, loginUser) and the favorites    *)
(* page script (loadFavorites, removeFromFavorites).                       *)
(*                                                                         *)
(* JavaScript is single threaded: a handler runs from its call to its      *)
(* first await in one step, and from the resolution of the awaited fetch   *)
(* to its end in one step.  A suspended handler is a record in inflight.   *)
(* The backend is an external service: every response it can send is a     *)
(* nondeterministic input of the step that resumes the handler.            *)
(*                                                                         *)
(* A JavaScript value that may be null/undefined is a sequence of length   *)
(* at most one: <<>> is null/undefined, <<v>> is the value v.              *)
(***************************************************************************)
EXTENDS Integers, Sequences, FiniteSets, TLC

\* ---------------------------------------------------------------- bounds
MaxActions == 3
MaxPage == 1
MaxQueryLen == 1

\* ---------------------------------------------------------------- inputs
Chars == {" ", "a"}
Queries == UNION {[1..n -> Chars] : n \in 0..MaxQueryLen}
Pages == 0..MaxPage
Tokens == {"t1", "t2"}
ArticleIds == {"a1", "a2"}
MessageTexts == {"Favorite deleted"}
ErrorTexts == {"Favorite not found", "Article already in favorites"}
Directions == {"prev", "next", "other"}
ErrorStatuses == {401, 500}

None == <<>>
Some(v) == <<v>>
Optional(S) == {None} \cup {Some(v) : v \in S}

\* JavaScript truthiness of an optional string: null, undefined and "" are falsy
truthy(v) == v # None /\ v[1] # ""

\* PageInfo as the server sends it: current_page, prev_page|null, next_page|null
PageInfos ==
  UNION {[current_page : {p}, prev_page : Optional({p - 1}), next_page : Optional({p + 1})] : p \in Pages}

\* ---------------------------------------------------------------- responses
\* What the backend, an external service, can answer.  A response is recorded by
\* the fields the resumed handler reads; only loginUser reads the HTTP status.

\* the fetch rejects or the body is not JSON: the await throws
Failed == [kind |-> "failed"]

\* GET /articles/search: a body with or without meta, whose articles is an array or not
SearchResponses ==
  {Failed}
    \cup [kind : {"json"}, meta : {Some(m) : m \in PageInfos}, articles : BOOLEAN]
    \cup [kind : {"json"}, meta : {None}, articles : {FALSE}]

\* POST and DELETE /favorites: {message} | {error} | neither | both
FavoriteResponses ==
  {Failed}
    \cup [kind : {"json"}, message : Optional(MessageTexts \cup {""}), error : Optional(ErrorTexts)]

\* GET /favorites: a body with or without a favorites array; the array is given by
\* the number of entries it holds for each article_id
MaxDup == 2
ListResponses ==
  {Failed} \cup [kind : {"json"}, favorites : Optional([ArticleIds -> 0..MaxDup])]

\* POST /login: a status, and on a 2xx status a body with or without token
OkStatus == 200
LoginResponses ==
  {Failed}
    \cup [kind : {"http"}, status : ErrorStatuses, token : {None}]
    \cup [kind : {"http"}, status : {OkStatus}, token : Optional(Tokens \cup {""})]

\* Response.ok
ok(status) == status \in 200..299

NoResponse == [kind |-> "none"]

\* ---------------------------------------------------------------- texts
ValidationMessage == "Please enter a search query."
LoginSuccessful == "Login successful!"
LoginFailed == "Login failed. Please try again."
GenericError == "An error occurred. Please try again."
TryAgain == "Error, Please try again."

VARIABLES
  searchQuery,    \* value of the input #searchQuery
  currentPage,    \* let currentPage
  prevDisabled,   \* #prevPageBtn.disabled
  nextDisabled,   \* #nextPageBtn.disabled
  articles,       \* content of #articles
  jwtToken,       \* let jwtToken (in memory)
  localStorage,   \* localStorage item 'jwtToken'
  modalInstance,  \* a bootstrap.Modal instance exists for #loginModal
  modalShown,     \* #loginModal is shown
  favorites,      \* content of #favorites: number of elements per id
  loaded,         \* window.onload has fired
  inflight,       \* suspended handlers, one per pending fetch
  invocations,    \* number of handler invocations so far
  netLog,         \* the invocation behind every fetch issued so far, in order
  alerts,         \* alert() texts shown by the last handler step
  lastEvent,      \* the last handler step: which handler, which step, how it ended
  lastResponse,   \* the response the last handler step resumed with, if it was a resume
  lastMeta        \* the PageInfo of the search response processed last on this page

vars == <<searchQuery, currentPage, prevDisabled, nextDisabled, articles,
          jwtToken, localStorage, modalInstance, modalShown, favorites, loaded,
          inflight, invocations, netLog, alerts, lastEvent, lastResponse, lastMeta>>

pageVars == <<currentPage, prevDisabled, nextDisabled, lastMeta>>
tokenVars == <<jwtToken, localStorage>>
modalVars == <<modalInstance, modalShown>>

\* ---------------------------------------------------------------- helpers

RECURSIVE trimStart(_)
trimStart(s) == IF s # <<>> /\ Head(s) = " " THEN trimStart(Tail(s)) ELSE s

RECURSIVE trimEnd(_)
trimEnd(s) == IF s # <<>> /\ s[Len(s)] = " " THEN trimEnd(SubSeq(s, 1, Len(s) - 1)) ELSE s

\* String.prototype.trim
trim(s) == trimEnd(trimStart(s))

\* the initial token as it would be if it were read under another key
initialToken_WrongKey(stored) == None

\* let jwtToken = localStorage.getItem('jwtToken') || null
initialToken(stored) == IF truthy(stored) THEN stored ELSE None

\* getAuthHeaders as it would be if it sent the bare token
getAuthHeaders_Bare == IF truthy(localStorage) THEN <<localStorage[1]>> ELSE <<>>

\* getAuthHeaders: the Authorization header, read from localStorage
getAuthHeaders == IF truthy(localStorage) THEN <<"Bearer", localStorage[1]>> ELSE <<>>

\* what the page shows and how many awaited fetches are no longer pending, at the
\* moment a handler suspends: the state its continuation was issued in
Seen ==
  [currentPage |-> currentPage, prevDisabled |-> prevDisabled,
   nextDisabled |-> nextDisabled, articles |-> articles,
   settled |-> Len(netLog) - Cardinality(inflight)]

\* a suspended handler and the request it awaits; a search remembers the state it
\* was issued in
Request(inv, op, page, q, auth, id) ==
  [inv |-> inv, op |-> op, page |-> page, q |-> q, auth |-> auth, articleId |-> id,
   seen |-> IF op = "search" THEN Some(Seen) ELSE None]

\* what a handler step did: outcome is "suspended" (reached its await), "returned",
\* "caught" (an exception reached the handler's catch) or "threw" (the exception
\* left the handler: a rejected promise nobody handles); error is the exception
Event(op, step, outcome, error) ==
  [op |-> op, step |-> step, outcome |-> outcome, error |-> error]

NoError == <<>>
\* a rejected fetch, a body that is not JSON
TransportError == <<"TransportError">>
\* reading a property of undefined or null
TypeError == <<"TypeError">>
\* new Error(`HTTP error! Status: ${response.status}`)
HttpError(status) == <<"HTTP error! Status:", status>>

\* content of #articles: as loaded, a message, or the cards of the response to
\* invocation inv
Content(kind, text, inv) == [kind |-> kind, text |-> text, inv |-> inv]

\* a fetch is issued: the handler suspends on it
fetch(req) ==
  /\ inflight' = inflight \cup {req}
  /\ netLog' = Append(netLog, req.inv)

\* the awaited fetch settles with resp: the handler leaves inflight
settle(req, resp) ==
  /\ req \in inflight
  /\ inflight' = inflight \ {req}
  /\ lastResponse' = resp
  /\ UNCHANGED <<netLog, invocations>>

\* a new handler invocation
invoke ==
  /\ invocations < MaxActions
  /\ invocations' = invocations + 1
  /\ lastResponse' = NoResponse

\* ---------------------------------------------------------------- initial state

\* the scripts have run on a freshly loaded page; localStorage is empty or holds
\* the token an earlier session stored (one token stands for any: no handler
\* looks into a token)
Init ==
  /\ localStorage \in Optional({"t1"})
  /\ jwtToken = initialToken(localStorage)
  /\ currentPage = 0
  /\ searchQuery = <<>>
  /\ prevDisabled \in BOOLEAN   \* as the markup of the page sets them
  /\ nextDisabled \in BOOLEAN
  /\ articles = Content("empty", "", 0)
  /\ modalInstance = FALSE
  /\ modalShown = FALSE
  /\ favorites = [a \in ArticleIds |-> 0]
  /\ loaded = FALSE
  /\ inflight = {}
  /\ alerts = <<>>
  /\ lastMeta = None
  /\ invocations = 0
  /\ netLog = <<>>
  /\ lastEvent = Event("page", "load", "returned", NoError)
  /\ lastResponse = NoResponse

\* ---------------------------------------------------------------- search page

\* the user edits the search box
TypeQuery(q) ==
  /\ q \in Queries
  /\ q # searchQuery
  /\ searchQuery' = q
  /\ UNCHANGED <<pageVars, articles, tokenVars, modalVars, favorites, loaded,
                 inflight, invocations, netLog, alerts, lastEvent, lastResponse>>

\* searchArticles as it would be if it advanced the page before the response
searchArticles_Optimistic(page) ==
  /\ invoke
  /\ alerts' = <<>>
  /\ IF trim(searchQuery) = <<>>
       THEN /\ articles' = Content("message", ValidationMessage, 0)
            /\ lastEvent' = Event("search", "call", "returned", NoError)
            /\ UNCHANGED <<inflight, netLog, currentPage>>
       ELSE /\ fetch(Request(invocations', "search", page, searchQuery, <<>>, ""))
            /\ lastEvent' = Event("search", "call", "suspended", NoError)
            /\ currentPage' = page
            /\ UNCHANGED articles
  /\ UNCHANGED <<searchQuery, prevDisabled, nextDisabled, lastMeta, tokenVars, modalVars,
                 favorites, loaded>>

\* searchArticles as it would be if it tested the query without trimming it
searchArticles_NoTrim(page) ==
  /\ invoke
  /\ alerts' = <<>>
  /\ IF searchQuery = <<>>
       THEN /\ articles' = Content("message", ValidationMessage, 0)
            /\ lastEvent' = Event("search", "call", "returned", NoError)
            /\ UNCHANGED <<inflight, netLog>>
       ELSE /\ fetch(Request(invocations', "search", page, searchQuery, <<>>, ""))
            /\ lastEvent' = Event("search", "call", "suspended", NoError)
            /\ UNCHANGED articles
  /\ UNCHANGED <<searchQuery, pageVars, tokenVars, modalVars, favorites, loaded>>

\* searchArticles(page) up to its await
searchArticles(page) ==
  /\ invoke
  /\ alerts' = <<>>
  /\ IF trim(searchQuery) = <<>>
       THEN /\ articles' = Content("message", ValidationMessage, 0)
            /\ lastEvent' = Event("search", "call", "returned", NoError)
            /\ UNCHANGED <<inflight, netLog>>
       ELSE /\ fetch(Request(invocations', "search", page, searchQuery, <<>>, ""))
            /\ lastEvent' = Event("search", "call", "suspended", NoError)
            /\ UNCHANGED articles
  /\ UNCHANGED <<searchQuery, pageVars, tokenVars, modalVars, favorites, loaded>>

\* the search button: searchArticles() with the default page
Search == searchArticles(0)

\* changePage as it would be if it clamped the previous page at 0
changePage_Clamped(direction) ==
  IF direction = "prev"
    THEN searchArticles(IF currentPage > 0 THEN currentPage - 1 ELSE 0)
    ELSE searchArticles(currentPage + 1)

\* changePage(direction)
changePage(direction) ==
  IF direction = "prev"
    THEN searchArticles(currentPage - 1)
    ELSE searchArticles(currentPage + 1)

\* updatePagination as it would be if it read the wrong cursor for each button
updatePagination_Swapped(data) ==
  /\ currentPage' = data.current_page
  /\ prevDisabled' = (data.next_page = None)
  /\ nextDisabled' = (data.prev_page = None)

\* updatePagination(data)
updatePagination(data) ==
  /\ currentPage' = data.current_page
  /\ prevDisabled' = (data.prev_page = None)
  /\ nextDisabled' = (data.next_page = None)

\* searchArticles as it would be if it fetched again after a failed fetch
SearchSettled_Retry(req, resp) ==
  /\ req.op = "search"
  /\ resp \in SearchResponses
  /\ req \in inflight
  /\ lastResponse' = resp
  /\ alerts' = <<>>
  /\ UNCHANGED invocations
  /\ IF resp.kind = "failed"
       THEN /\ inflight' = inflight
            /\ netLog' = Append(netLog, req.inv)
            /\ lastEvent' = Event("search", "resume", "suspended", NoError)
            /\ UNCHANGED <<pageVars, articles>>
     ELSE IF resp.meta = None
       THEN /\ inflight' = inflight \ {req}
            /\ lastEvent' = Event("search", "resume", "threw", TypeError)
            /\ UNCHANGED <<pageVars, articles, netLog>>
     ELSE /\ inflight' = inflight \ {req}
          /\ updatePagination(resp.meta[1])
          /\ lastMeta' = resp.meta
          /\ UNCHANGED netLog
          /\ IF resp.articles
               THEN /\ articles' = Content("cards", "", req.inv)
                    /\ lastEvent' = Event("search", "resume", "returned", NoError)
               ELSE /\ lastEvent' = Event("search", "resume", "threw", TypeError)
                    /\ UNCHANGED articles
  /\ UNCHANGED <<searchQuery, tokenVars, modalVars, favorites, loaded>>

\* searchArticles as it would be if it dropped a response older than the one shown
SearchSettled_Sequenced(req, resp) ==
  /\ req.op = "search"
  /\ resp \in SearchResponses
  /\ settle(req, resp)
  /\ alerts' = <<>>
  /\ IF resp.kind = "failed"
       THEN /\ lastEvent' = Event("search", "resume", "threw", TransportError)
            /\ UNCHANGED <<pageVars, articles>>
     ELSE IF resp.meta = None
       THEN /\ lastEvent' = Event("search", "resume", "threw", TypeError)
            /\ UNCHANGED <<pageVars, articles>>
     ELSE IF req.inv < articles.inv
       THEN /\ lastEvent' = Event("search", "resume", "returned", NoError)
            /\ UNCHANGED <<pageVars, articles>>
     ELSE /\ updatePagination(resp.meta[1])
          /\ lastMeta' = resp.meta
          /\ IF resp.articles
               THEN /\ articles' = Content("cards", "", req.inv)
                    /\ lastEvent' = Event("search", "resume", "returned", NoError)
               ELSE /\ lastEvent' = Event("search", "resume", "threw", TypeError)
                    /\ UNCHANGED articles
  /\ UNCHANGED <<searchQuery, tokenVars, modalVars, favorites, loaded>>

\* searchArticles as it would be if a failed fetch emptied the result list
SearchSettled_ClearOnFail(req, resp) ==
  /\ req.op = "search"
  /\ resp \in SearchResponses
  /\ settle(req, resp)
  /\ alerts' = <<>>
  /\ IF resp.kind = "failed"
       THEN \* the exception leaves searchArticles before anything is written
            /\ lastEvent' = Event("search", "resume", "threw", TransportError)
            /\ articles' = Content("empty", "", 0)
            /\ UNCHANGED pageVars
     ELSE IF resp.meta = None
       THEN \* updatePagination(undefined) throws on data.current_page
            /\ lastEvent' = Event("search", "resume", "threw", TypeError)
            /\ UNCHANGED <<pageVars, articles>>
     ELSE /\ updatePagination(resp.meta[1])
          /\ lastMeta' = resp.meta
          /\ IF resp.articles
               THEN /\ articles' = Content("cards", "", req.inv)
                    /\ lastEvent' = Event("search", "resume", "returned", NoError)
               ELSE \* data.articles.map throws after updatePagination
                    /\ lastEvent' = Event("search", "resume", "threw", TypeError)
                    /\ UNCHANGED articles
  /\ UNCHANGED <<searchQuery, tokenVars, modalVars, favorites, loaded>>

\* searchArticles resumes from await fetchArticles(query, page)
SearchSettled(req, resp) ==
  /\ req.op = "search"
  /\ resp \in SearchResponses
  /\ settle(req, resp)
  /\ alerts' = <<>>
  /\ IF resp.kind = "failed"
       THEN \* the exception leaves searchArticles before anything is written
            /\ lastEvent' = Event("search", "resume", "threw", TransportError)
            /\ UNCHANGED <<pageVars, articles>>
     ELSE IF resp.meta = None
       THEN \* updatePagination(undefined) throws on data.current_page
            /\ lastEvent' = Event("search", "resume", "threw", TypeError)
            /\ UNCHANGED <<pageVars, articles>>
     ELSE /\ updatePagination(resp.meta[1])
          /\ lastMeta' = resp.meta
          /\ IF resp.articles
               THEN /\ articles' = Content("cards", "", req.inv)
                    /\ lastEvent' = Event("search", "resume", "returned", NoError)
               ELSE \* data.articles.map throws after updatePagination
                    /\ lastEvent' = Event("search", "resume", "threw", TypeError)
                    /\ UNCHANGED articles
  /\ UNCHANGED <<searchQuery, tokenVars, modalVars, favorites, loaded>>

\* ---------------------------------------------------------------- session

\* handleFavorite as it would be if it issued the request without the token test
handleFavorite_NoGate(articleId) ==
  /\ articles.kind = "cards"
  /\ invoke
  /\ alerts' = <<>>
  /\ fetch(Request(invocations', "add", 0, <<>>, getAuthHeaders, articleId))
  /\ lastEvent' = Event("add", "call", "suspended", NoError)
  /\ UNCHANGED <<searchQuery, pageVars, articles, tokenVars, modalVars, favorites, loaded>>

\* handleFavorite(articleId, title, url) up to its await; it is the onclick of
\* the button searchArticles renders on every card
handleFavorite(articleId) ==
  /\ articles.kind = "cards"
  /\ invoke
  /\ alerts' = <<>>
  /\ IF ~truthy(jwtToken)
       THEN /\ modalInstance' = TRUE
            /\ modalShown' = TRUE
            /\ lastEvent' = Event("add", "call", "returned", NoError)
            /\ UNCHANGED <<inflight, netLog>>
       ELSE /\ fetch(Request(invocations', "add", 0, <<>>, getAuthHeaders, articleId))
            /\ lastEvent' = Event("add", "call", "suspended", NoError)
            /\ UNCHANGED modalVars
  /\ UNCHANGED <<searchQuery, pageVars, articles, tokenVars, favorites, loaded>>

\* the alert as it would be if an error field got the generic text
favoriteAlert_GenericOnError(data) ==
  IF truthy(data.message) THEN data.message[1] ELSE TryAgain

\* the alert as it would be without the final else: alert(data.error) of a body
\* that has no error field
favoriteAlert_NoFallback(data) ==
  IF truthy(data.message) THEN data.message[1]
  ELSE IF truthy(data.error) THEN data.error[1]
  ELSE "undefined"

\* the alert chosen from a body of POST or DELETE /favorites
favoriteAlert(data) ==
  IF truthy(data.message) THEN data.message[1]
  ELSE IF truthy(data.error) THEN data.error[1]
  ELSE TryAgain

\* handleFavorite resumes from await addToFavorites(...); it has no catch
AddSettled(req, resp) ==
  /\ req.op = "add"
  /\ resp \in FavoriteResponses
  /\ settle(req, resp)
  /\ IF resp.kind = "failed"
       THEN /\ alerts' = <<>>
            /\ lastEvent' = Event("add", "resume", "threw", TransportError)
       ELSE /\ alerts' = <<favoriteAlert(resp)>>
            /\ lastEvent' = Event("add", "resume", "returned", NoError)
  /\ UNCHANGED <<searchQuery, pageVars, articles, tokenVars, modalVars, favorites, loaded>>

\* login() up to its await: loginUser posts the credentials without an
\* Authorization header
login ==
  /\ invoke
  /\ fetch(Request(invocations', "login", 0, <<>>, <<>>, ""))
  /\ alerts' = <<>>
  /\ lastEvent' = Event("login", "call", "suspended", NoError)
  /\ UNCHANGED <<searchQuery, pageVars, articles, tokenVars, modalVars, favorites, loaded>>

\* loginUser as it would be without the test of response.ok
loginUser_NoStatusCheck(resp) ==
  IF resp.kind = "failed" THEN TransportError ELSE NoError

\* loginUser: the exception its await raises, if any
loginUser(resp) ==
  IF resp.kind = "failed" THEN TransportError
  ELSE IF ~ok(resp.status) THEN HttpError(resp.status)
  ELSE NoError

\* login as it would be if it assigned data.token to jwtToken before testing it
LoginSettled_AssignFirst(req, resp) ==
  /\ req.op = "login"
  /\ resp \in LoginResponses
  /\ settle(req, resp)
  /\ IF loginUser(resp) # NoError
       THEN /\ alerts' = <<GenericError>>
            /\ lastEvent' = Event("login", "resume", "caught", loginUser(resp))
            /\ UNCHANGED <<tokenVars, modalVars>>
     ELSE IF truthy(resp.token)
       THEN /\ jwtToken' = resp.token
            /\ localStorage' = jwtToken'
            /\ modalInstance' = modalInstance
            /\ IF modalInstance
                 THEN /\ modalShown' = FALSE
                      /\ alerts' = <<LoginSuccessful>>
                      /\ lastEvent' = Event("login", "resume", "returned", NoError)
                 ELSE /\ modalShown' = modalShown
                      /\ alerts' = <<LoginSuccessful, GenericError>>
                      /\ lastEvent' = Event("login", "resume", "caught", TypeError)
     ELSE /\ alerts' = <<LoginFailed>>
          /\ lastEvent' = Event("login", "resume", "returned", NoError)
          /\ jwtToken' = None
          /\ UNCHANGED <<localStorage, modalVars>>
  /\ UNCHANGED <<searchQuery, pageVars, articles, favorites, loaded>>

\* login as it would be if a refused login also dropped the stored token
LoginSettled_ClearOnRefused(req, resp) ==
  /\ req.op = "login"
  /\ resp \in LoginResponses
  /\ settle(req, resp)
  /\ IF loginUser(resp) # NoError
       THEN \* catch: console.error and the generic alert
            /\ alerts' = <<GenericError>>
            /\ lastEvent' = Event("login", "resume", "caught", loginUser(resp))
            /\ jwtToken' = IF resp.kind = "http" THEN None ELSE jwtToken
            /\ localStorage' = IF resp.kind = "http" THEN None ELSE localStorage
            /\ UNCHANGED modalVars
     ELSE IF truthy(resp.token)
       THEN /\ jwtToken' = resp.token
            /\ localStorage' = jwtToken'
            /\ modalInstance' = modalInstance
            /\ IF modalInstance
                 THEN /\ modalShown' = FALSE
                      /\ alerts' = <<LoginSuccessful>>
                      /\ lastEvent' = Event("login", "resume", "returned", NoError)
                 ELSE \* Modal.getInstance returns null: .hide() throws into the catch
                      /\ modalShown' = modalShown
                      /\ alerts' = <<LoginSuccessful, GenericError>>
                      /\ lastEvent' = Event("login", "resume", "caught", TypeError)
     ELSE /\ alerts' = <<LoginFailed>>
          /\ lastEvent' = Event("login", "resume", "returned", NoError)
          /\ UNCHANGED <<tokenVars, modalVars>>
  /\ UNCHANGED <<searchQuery, pageVars, articles, favorites, loaded>>

\* login as it would be without localStorage.setItem
LoginSettled_MemoryOnly(req, resp) ==
  /\ req.op = "login"
  /\ resp \in LoginResponses
  /\ settle(req, resp)
  /\ IF loginUser(resp) # NoError
       THEN \* catch: console.error and the generic alert
            /\ alerts' = <<GenericError>>
            /\ lastEvent' = Event("login", "resume", "caught", loginUser(resp))
            /\ UNCHANGED <<tokenVars, modalVars>>
     ELSE IF truthy(resp.token)
       THEN /\ jwtToken' = resp.token
            /\ localStorage' = localStorage
            /\ modalInstance' = modalInstance
            /\ IF modalInstance
                 THEN /\ modalShown' = FALSE
                      /\ alerts' = <<LoginSuccessful>>
                      /\ lastEvent' = Event("login", "resume", "returned", NoError)
                 ELSE \* Modal.getInstance returns null: .hide() throws into the catch
                      /\ modalShown' = modalShown
                      /\ alerts' = <<LoginSuccessful, GenericError>>
                      /\ lastEvent' = Event("login", "resume", "caught", TypeError)
     ELSE /\ alerts' = <<LoginFailed>>
          /\ lastEvent' = Event("login", "resume", "returned", NoError)
          /\ UNCHANGED <<tokenVars, modalVars>>
  /\ UNCHANGED <<searchQuery, pageVars, articles, favorites, loaded>>

\* login resumes from await loginUser(username, password)
LoginSettled(req, resp) ==
  /\ req.op = "login"
  /\ resp \in LoginResponses
  /\ settle(req, resp)
  /\ IF loginUser(resp) # NoError
       THEN \* catch: console.error and the generic alert
            /\ alerts' = <<GenericError>>
            /\ lastEvent' = Event("login", "resume", "caught", loginUser(resp))
            /\ UNCHANGED <<tokenVars, modalVars>>
     ELSE IF truthy(resp.token)
       THEN /\ jwtToken' = resp.token
            /\ localStorage' = jwtToken'
            /\ modalInstance' = modalInstance
            /\ IF modalInstance
                 THEN /\ modalShown' = FALSE
                      /\ alerts' = <<LoginSuccessful>>
                      /\ lastEvent' = Event("login", "resume", "returned", NoError)
                 ELSE \* Modal.getInstance returns null: .hide() throws into the catch
                      /\ modalShown' = modalShown
                      /\ alerts' = <<LoginSuccessful, GenericError>>
                      /\ lastEvent' = Event("login", "resume", "caught", TypeError)
     ELSE /\ alerts' = <<LoginFailed>>
          /\ lastEvent' = Event("login", "resume", "returned", NoError)
          /\ UNCHANGED <<tokenVars, modalVars>>
  /\ UNCHANGED <<searchQuery, pageVars, articles, favorites, loaded>>

\* ---------------------------------------------------------------- favorites page

\* window.onload = loadFavorites, up to its await
loadFavorites ==
  /\ ~loaded
  /\ loaded' = TRUE
  /\ invoke
  /\ fetch(Request(invocations', "list", 0, <<>>, getAuthHeaders, ""))
  /\ alerts' = <<>>
  /\ lastEvent' = Event("list", "call", "suspended", NoError)
  /\ UNCHANGED <<searchQuery, pageVars, articles, tokenVars, modalVars, favorites>>

\* loadFavorites resumes from await fetchFavorites(); it has no catch
ListSettled(req, resp) ==
  /\ req.op = "list"
  /\ resp \in ListResponses
  /\ settle(req, resp)
  /\ alerts' = <<>>
  /\ IF resp.kind = "failed"
       THEN /\ lastEvent' = Event("list", "resume", "threw", TransportError)
            /\ UNCHANGED favorites
     ELSE IF resp.favorites = None
       THEN \* data.favorites.map throws
            /\ lastEvent' = Event("list", "resume", "threw", TypeError)
            /\ UNCHANGED favorites
     ELSE /\ favorites' = resp.favorites[1]
          /\ lastEvent' = Event("list", "resume", "returned", NoError)
  /\ UNCHANGED <<searchQuery, pageVars, articles, tokenVars, modalVars, loaded>>

\* removeFromFavorites($id) up to its await; it is the onclick of the button
\* loadFavorites renders inside the element with that id
removeFromFavorites(id) ==
  /\ favorites[id] > 0
  /\ invoke
  /\ fetch(Request(invocations', "remove", 0, <<>>, getAuthHeaders, id))
  /\ alerts' = <<>>
  /\ lastEvent' = Event("remove", "call", "suspended", NoError)
  /\ UNCHANGED <<searchQuery, pageVars, articles, tokenVars, modalVars, favorites, loaded>>

\* document.getElementById(id) and, if it exists, element.remove()
removeElement(dom, id) ==
  IF dom[id] > 0 THEN [dom EXCEPT ![id] = dom[id] - 1] ELSE dom

\* removeFromFavorites as it would be if it removed the element on any parsed body
RemoveSettled_RemoveOnAny(req, resp) ==
  /\ req.op = "remove"
  /\ resp \in FavoriteResponses
  /\ settle(req, resp)
  /\ IF resp.kind = "failed"
       THEN /\ alerts' = <<>>
            /\ lastEvent' = Event("remove", "resume", "threw", TransportError)
            /\ UNCHANGED favorites
       ELSE /\ alerts' = <<favoriteAlert(resp)>>
            /\ favorites' = removeElement(favorites, req.articleId)
            /\ lastEvent' = Event("remove", "resume", "returned", NoError)
  /\ UNCHANGED <<searchQuery, pageVars, articles, tokenVars, modalVars, loaded>>

\* removeFromFavorites resumes from await removeFromFavoritesApi($id); it has no catch
RemoveSettled(req, resp) ==
  /\ req.op = "remove"
  /\ resp \in FavoriteResponses
  /\ settle(req, resp)
  /\ IF resp.kind = "failed"
       THEN /\ alerts' = <<>>
            /\ lastEvent' = Event("remove", "resume", "threw", TransportError)
            /\ UNCHANGED favorites
       ELSE /\ alerts' = <<favoriteAlert(resp)>>
            /\ favorites' = IF truthy(resp.message)
                              THEN removeElement(favorites, req.articleId)
                              ELSE favorites
            /\ lastEvent' = Event("remove", "resume", "returned", NoError)
  /\ UNCHANGED <<searchQuery, pageVars, articles, tokenVars, modalVars, loaded>>

\* ---------------------------------------------------------------- reload

\* the page is reloaded: the scripts run again, every suspended handler is gone,
\* only localStorage survives
Reload ==
  /\ currentPage' = 0
  /\ jwtToken' = initialToken(localStorage)
  /\ searchQuery' = <<>>
  /\ prevDisabled' \in BOOLEAN
  /\ nextDisabled' \in BOOLEAN
  /\ articles' = Content("empty", "", 0)
  /\ modalInstance' = FALSE
  /\ modalShown' = FALSE
  /\ favorites' = [a \in ArticleIds |-> 0]
  /\ loaded' = FALSE
  /\ inflight' = {}
  /\ alerts' = <<>>
  /\ lastMeta' = None
  /\ lastEvent' = Event("page", "load", "returned", NoError)
  /\ lastResponse' = NoResponse
  /\ UNCHANGED <<localStorage, invocations, netLog>>

\* ---------------------------------------------------------------- specification

Next ==
  \/ \E q \in Queries : TypeQuery(q)
  \/ Search
  \/ \E d \in Directions : changePage(d)
  \/ \E req \in inflight, resp \in SearchResponses : SearchSettled(req, resp)
  \/ \E id \in ArticleIds : handleFavorite(id)
  \/ \E req \in inflight, resp \in FavoriteResponses : AddSettled(req, resp)
  \/ login
  \/ \E req \in inflight, resp \in LoginResponses : LoginSettled(req, resp)
  \/ loadFavorites
  \/ \E req \in inflight, resp \in ListResponses : ListSettled(req, resp)
  \/ \E id \in ArticleIds : removeFromFavorites(id)
  \/ \E req \in inflight, resp \in FavoriteResponses : RemoveSettled(req, resp)
  \/ Reload

Spec == Init /\ [][Next]_vars

\* ---------------------------------------------------------------- steps, as seen in a transition

\* this step is a call of handler op (from its invocation to its await or return)
Called(op) == invocations' = invocations + 1 /\ lastEvent'.op = op /\ lastEvent'.step = "call"

\* this step resumes a suspended handler op with the settled fetch
Resumed(op) ==
  /\ invocations' = invocations
  /\ \E r \in inflight : r.op = op /\ inflight' = inflight \ {r}
  /\ lastEvent'.op = op /\ lastEvent'.step = "resume"

\* this step is a page load
Reloaded == lastEvent'.step = "load" /\ inflight' = {} /\ lastMeta' = None /\ ~loaded'

\* ---------------------------------------------------------------- claims

\* C1: currentPage is 0 until a search response has been processed on this page
\* and from then on the current_page of the PageInfo received last
C1_PageIsLastReceived ==
  currentPage = IF lastMeta = None THEN 0 ELSE lastMeta[1].current_page

\* C1: currentPage equals the current_page of the PageInfo received last (0 before
\* any); calling searchArticles or changePage never changes it, only a search
\* response that is processed (or a fresh page load) does
C1_CurrentPage ==
  /\ []C1_PageIsLastReceived
  /\ [][/\ Called("search") => currentPage' = currentPage
        /\ currentPage' # currentPage => Resumed("search") \/ Reloaded]_vars

\* C1 witness: a response has set currentPage to 1 and a page-nav request for
\* page 2 is in flight, currentPage still 1
C1_Witness ==
  /\ lastMeta # None
  /\ currentPage = 1
  /\ \E r \in inflight : r.op = "search" /\ r.page = 2

\* a query that is empty or holds only whitespace
Blank(q) == \A i \in 1..Len(q) : q[i] = " "

\* C2: a call of searchArticles (from the search button or from changePage) with
\* an empty or whitespace-only query renders the validation message, issues no
\* request and leaves currentPage and both page buttons as they were
C2_BlankQuery ==
  [][Called("search") /\ Blank(searchQuery) =>
       /\ articles' = Content("message", ValidationMessage, 0)
       /\ inflight' = inflight
       /\ netLog' = netLog
       /\ UNCHANGED <<currentPage, prevDisabled, nextDisabled>>]_vars

\* C2 witness: searchArticles has just returned the validation message for a
\* whitespace-only query, on page 1 with the previous button enabled
C2_Witness ==
  /\ lastEvent = Event("search", "call", "returned", NoError)
  /\ searchQuery = <<" ">>
  /\ articles = Content("message", ValidationMessage, 0)
  /\ currentPage = 1
  /\ ~prevDisabled

\* no session token is present
NoToken == jwtToken = None \/ jwtToken = Some("")

\* C3: a call of handleFavorite while no session token is present shows the
\* login prompt and issues no request, whatever else is in flight
C3_LoginPrompt ==
  [][Called("add") /\ NoToken =>
       /\ modalShown'
       /\ inflight' = inflight
       /\ netLog' = netLog]_vars

\* C3 witness: handleFavorite has just shown the login prompt while a login
\* request is in flight and no token is stored yet
C3_Witness ==
  /\ lastEvent = Event("add", "call", "returned", NoError)
  /\ NoToken
  /\ modalShown
  /\ \E r \in inflight : r.op = "login"

\* C4: once a search response has been processed, the previous button is
\* disabled exactly when the PageInfo processed last has prev_page = null, and
\* the next button exactly when it has next_page = null
C4_Buttons ==
  lastMeta # None =>
    /\ prevDisabled <=> lastMeta[1].prev_page = None
    /\ nextDisabled <=> lastMeta[1].next_page = None

\* C4 witness: two responses have been processed and the last one has no
\* previous page but a next page
C4_Witness ==
  /\ lastMeta # None
  /\ lastMeta[1].prev_page = None
  /\ lastMeta[1].next_page # None
  /\ prevDisabled /\ ~nextDisabled
  /\ Len(netLog) >= 2
  /\ inflight = {}
  /\ lastEvent.op = "search" /\ lastEvent.step = "resume"

\* the response of this step is a login response with a non-success status
LoginRefused(resp) == resp.kind = "http" /\ resp.status \notin 200..299

\* the response of this step is a 2xx login response that carries a token
LoginGranted(resp) ==
  resp.kind = "http" /\ resp.status \in 200..299 /\ resp.token # None /\ resp.token # Some("")

C6_TokenFrame ==
  [][jwtToken' # jwtToken \/ localStorage' # localStorage =>
       /\ Resumed("login")
       /\ LoginGranted(lastResponse')
       /\ jwtToken' = lastResponse'.token
       /\ localStorage' = lastResponse'.token]_vars

\* C6 witness: a successful login has replaced token t1 by t2 after another
\* request was issued
C6_Witness ==
  /\ lastEvent.op = "login" /\ lastEvent.step = "resume"
  /\ LoginGranted(lastResponse)
  /\ lastResponse.token = Some("t2")
  /\ jwtToken = Some("t2")
  /\ localStorage = Some("t2")
  /\ Len(netLog) >= 2

\* C7: a successful login persists its token t, no other step overwrites the
\* persisted value, and a reload re-initialises the in-memory token from it:
\* after the reload the session token is exactly the token the last successful
\* login stored
C7_RoundTrip ==
  [][/\ Resumed("login") /\ LoginGranted(lastResponse') => localStorage' = lastResponse'.token
     /\ ~(Resumed("login") /\ LoginGranted(lastResponse')) => localStorage' = localStorage
     /\ Reloaded => jwtToken' = localStorage /\ localStorage' = localStorage]_vars

\* C7 witness: the page has just been reloaded and holds t2, a token only a
\* login of this run can have stored
C7_Witness ==
  /\ lastEvent.step = "load"
  /\ jwtToken = Some("t2")
  /\ localStorage = Some("t2")
  /\ inflight = {}

\* C8: no invocation is behind more than one fetch
C8_AtMostOne ==
  \A i, j \in 1..Len(netLog) : netLog[i] = netLog[j] => i = j

\* C8: a call of searchArticles with a non-blank query issues exactly one
\* request; a request is only ever issued by the call step of a new invocation,
\* one per invocation, never by a step that processes a response or a failure;
\* such a step ends its handler
C8_OneRequest ==
  /\ []C8_AtMostOne
  /\ [][/\ Called("search") /\ ~Blank(searchQuery) =>
             /\ netLog' = Append(netLog, invocations')
             /\ \E r \in inflight' : /\ r.inv = invocations' /\ r.op = "search"
                                      /\ inflight' = inflight \cup {r}
                                      /\ r \notin inflight
        /\ netLog' # netLog =>
             /\ invocations' = invocations + 1
             /\ lastEvent'.step = "call"
             /\ netLog' = Append(netLog, invocations')
             /\ Cardinality(inflight' \ inflight) = 1
        /\ invocations' = invocations /\ inflight' # inflight =>
             /\ inflight' \subseteq inflight
             /\ netLog' = netLog]_vars

\* C8 witness: the only search issued has failed, nothing is in flight and
\* one fetch has been issued in all
C8_Witness ==
  /\ lastEvent = Event("search", "resume", "threw", TransportError)
  /\ lastResponse = Failed
  /\ inflight = {}
  /\ netLog = <<1>>
  /\ invocations = 1

\* the response of this step is a search body with a PageInfo
HasPageInfo(resp) == resp.kind = "json" /\ resp.meta # None

\* C9: whenever a search response with a PageInfo is processed, whatever the
\* order of issue and whatever has been processed before, currentPage and both
\* buttons become those of that response: the response processed last wins
C9_LastWriteWins ==
  [][Resumed("search") /\ HasPageInfo(lastResponse') =>
       /\ currentPage' = lastResponse'.meta[1].current_page
       /\ prevDisabled' = (lastResponse'.meta[1].prev_page = None)
       /\ nextDisabled' = (lastResponse'.meta[1].next_page = None)]_vars

\* C9 witness: two searches were in flight together; the response to the second
\* was processed first and the response to the first, processed last, has set
\* currentPage and the buttons
C9_Witness ==
  /\ netLog = <<1, 2>>
  /\ inflight = {}
  /\ lastEvent = Event("search", "resume", "returned", NoError)
  /\ articles = Content("cards", "", 1)
  /\ HasPageInfo(lastResponse)
  /\ lastResponse.meta[1].current_page = 1
  /\ currentPage = 1
  /\ ~prevDisabled /\ nextDisabled

\* C9 witness of the other order: the response to the first search was
\* processed while the second was still in flight
C9_InOrder ==
  /\ netLog = <<1, 2>>
  /\ \E r \in inflight : r.inv = 2 /\ r.op = "search" /\ inflight = {r}
  /\ articles = Content("cards", "", 1)

\* the body of this step's response carries a message
HasMessage(resp) == resp.kind = "json" /\ resp.message # None /\ resp.message # Some("")

\* the body of this step's response carries an error and no message
HasErrorOnly(resp) ==
  resp.kind = "json" /\ ~HasMessage(resp) /\ resp.error # None /\ resp.error # Some("")

\* C10 as stated: when removeFromFavorites resumes for an id whose element an
\* earlier successful call has already removed, the outcome is the backend's
\* error field, shown to the user, never a transport failure, and the
\* displayed list is unchanged
C10_SecondRemoveIsError ==
  [][\A r \in inflight :
        /\ r.op = "remove" /\ inflight' = inflight \ {r} /\ Resumed("remove")
        /\ favorites[r.articleId] = 0
        => /\ HasErrorOnly(lastResponse')
           /\ lastEvent'.outcome = "returned"
           /\ alerts' = <<lastResponse'.error[1]>>
           /\ favorites' = favorites]_vars

\* C10 amended: removeFromFavorites removes a display element only when the
\* response carries a message and an element with the id exists, and then
\* exactly one such element; so a second call for an id whose element an
\* earlier successful call has removed leaves the displayed list unchanged
\* whatever the backend answers; an answer with an error and no message is
\* shown verbatim, and a failed fetch leaves the handler as an exception
C10_SecondRemove ==
  [][\A r \in inflight :
        r.op = "remove" /\ inflight' = inflight \ {r} /\ Resumed("remove")
        => /\ favorites' # favorites =>
                /\ HasMessage(lastResponse')
                /\ favorites[r.articleId] > 0
                /\ favorites' = [favorites EXCEPT ![r.articleId] = @ - 1]
           /\ favorites[r.articleId] = 0 => favorites' = favorites
           /\ HasErrorOnly(lastResponse') =>
                /\ alerts' = <<lastResponse'.error[1]>>
                /\ lastEvent'.outcome = "returned"
           /\ lastResponse' = Failed =>
                /\ alerts' = <<>>
                /\ lastEvent'.outcome = "threw"]_vars

\* C10 witness: one favorite was listed and removeFromFavorites was called twice
\* for it; one call has removed the element and the call processed last was
\* answered with an error, which is shown, the list staying empty
C10_Witness ==
  /\ Len(netLog) = 3
  /\ inflight = {}
  /\ favorites = [a \in ArticleIds |-> 0]
  /\ lastEvent = Event("remove", "resume", "returned", NoError)
  /\ HasErrorOnly(lastResponse)
  /\ lastResponse.error = Some("Favorite not found")
  /\ alerts = <<"Favorite not found">>

\* C11: when handleFavorite resumes with a parsed body that has an error field
\* and no message, exactly that error text is alerted, the handler returns
\* normally, and the in-memory and persisted tokens are unchanged
C11_DuplicateFavorite ==
  [][Resumed("add") /\ HasErrorOnly(lastResponse') =>
       /\ alerts' = <<lastResponse'.error[1]>>
       /\ lastEvent'.outcome = "returned"
       /\ lastEvent'.error = NoError
       /\ jwtToken' = jwtToken
       /\ localStorage' = localStorage]_vars

\* C11 witness: an authenticated add-favorite has just been answered with
\* "Article already in favorites", which is shown, token t1 still held
C11_Witness ==
  /\ lastEvent = Event("add", "resume", "returned", NoError)
  /\ HasErrorOnly(lastResponse)
  /\ lastResponse.error = Some("Article already in favorites")
  /\ alerts = <<"Article already in favorites">>
  /\ jwtToken = Some("t1")
  /\ localStorage = Some("t1")

\* the Authorization header for session token t
Bearer(t) == IF t # None /\ t # Some("") THEN <<"Bearer", t[1]>> ELSE <<>>

\* C12: every add-favorite, remove-favorite and list-favorites request carries
\* the header Bearer <token> of the session token held when it is issued, and
\* an empty header when there is none; loadFavorites and removeFromFavorites
\* issue their request whether or not a token is held
C12_AuthHeader ==
  [][/\ \A r \in inflight' \ inflight :
             r.op \in {"add", "remove", "list"} => r.auth = Bearer(jwtToken)
     /\ Called("list") \/ Called("remove") =>
             /\ netLog' = Append(netLog, invocations')
             /\ \E r \in inflight' \ inflight : r.op = lastEvent'.op]_vars

\* C12 witness: with no token held, a remove-favorite request is in flight with
\* an empty Authorization header
C12_Witness ==
  /\ NoToken
  /\ \E r \in inflight : r.op = "remove" /\ r.auth = <<>>

\* C12 witness of the other case: after a login stored t2, a remove-favorite
\* request is in flight with Bearer t2
C12_WitnessBearer ==
  /\ jwtToken = Some("t2")
  /\ \E r \in inflight : r.op = "remove" /\ r.auth = <<"Bearer", "t2">>

\* the body of this step's response carries neither message nor error
HasNeither(resp) ==
  /\ resp.kind = "json"
  /\ resp.message = None \/ resp.message = Some("")
  /\ resp.error = None \/ resp.error = Some("")

\* the response of this step is a 2xx login response without a token
LoginWithoutToken(resp) ==
  /\ resp.kind = "http" /\ resp.status \in 200..299
  /\ resp.token = None \/ resp.token = Some("")

\* C13: a body with neither message nor error makes handleFavorite and
\* removeFromFavorites alert the generic try-again text, and a 2xx login body
\* without token makes login alert its login-failed try-again text as a normal
\* return, not through the catch; in each case no token is stored, no display
\* element is removed and the page state is unchanged
C13_UnexpectedShape ==
  [][/\ (Resumed("add") \/ Resumed("remove")) /\ HasNeither(lastResponse') =>
             /\ alerts' = <<TryAgain>>
             /\ lastEvent'.outcome = "returned"
             /\ UNCHANGED <<jwtToken, localStorage, favorites, currentPage,
                            prevDisabled, nextDisabled, articles>>
     /\ Resumed("login") /\ LoginWithoutToken(lastResponse') =>
             /\ alerts' = <<LoginFailed>>
             /\ lastEvent'.outcome = "returned"
             /\ lastEvent'.error = NoError
             /\ UNCHANGED <<jwtToken, localStorage, favorites, currentPage,
                            prevDisabled, nextDisabled, articles>>]_vars

\* C13 witness: a remove-favorite answered with an empty body has just been
\* processed; the generic text is shown and the element is still displayed
C13_Witness ==
  /\ lastEvent = Event("remove", "resume", "returned", NoError)
  /\ HasNeither(lastResponse)
  /\ alerts = <<TryAgain>>
  /\ \E a \in ArticleIds : favorites[a] > 0

\* C13 witness for login: a 2xx login without token has just been processed
C13_WitnessLogin ==
  /\ lastEvent = Event("login", "resume", "returned", NoError)
  /\ LoginWithoutToken(lastResponse)
  /\ alerts = <<LoginFailed>>

\* a token is present in t
Present(t) == t # None /\ t # Some("")

\* C14: once a token is present, in memory or persisted, it is present after
\* every step: actions, responses, failures and reloads never clear it
C14_NeverCleared ==
  [][/\ Present(jwtToken) => Present(jwtToken')
     /\ Present(localStorage) => Present(localStorage')]_vars

\* C14 witness: the page has been reloaded after two requests were issued and
\* the token of the earlier session is still held
C14_Witness ==
  /\ lastEvent.step = "load"
  /\ Len(netLog) >= 2
  /\ jwtToken = Some("t1")
  /\ localStorage = Some("t1")

\* C15: with a non-blank query, changePage('prev') requests exactly page
\* currentPage - 1 and every other direction exactly currentPage + 1, with no
\* clamping at 0
C15_NoClamping ==
  [][\A d \in Directions :
        changePage(d) /\ ~Blank(searchQuery) =>
          \E r \in inflight' \ inflight :
            /\ r.op = "search"
            /\ r.page = IF d = "prev" THEN currentPage - 1 ELSE currentPage + 1]_vars

\* C15 witness: from the initial page state a request for page -1 is in flight
C15_Witness ==
  /\ lastMeta = None
  /\ currentPage = 0
  /\ \E r \in inflight : r.op = "search" /\ r.page = -1

\* C17: the in-memory token and the persisted jwtToken agree
C17_TokensAgree == jwtToken = localStorage

\* C17: the in-memory token and the persisted jwtToken agree in every state,
\* and every add-favorite request in flight carries Bearer <token> with a
\* non-empty token
C17_AddIsAuthenticated ==
  /\ C17_TokensAgree
  /\ \A r \in inflight :
       r.op = "add" => \E t \in Tokens : r.auth = <<"Bearer", t>>

\* C17 witness: an add-favorite request issued after a login that stored t2 is
\* in flight with Bearer t2
C17_Witness ==
  /\ jwtToken = Some("t2")
  /\ localStorage = Some("t2")
  /\ \E r \in inflight : r.op = "add" /\ r.auth = <<"Bearer", "t2">>

\* C16 as stated: when the fetch of a search fails, the exception leaves
\* searchArticles, and currentPage, the prev/next buttons and the displayed
\* results are exactly what they were when that search was issued
C16_AsWhenIssued ==
  [][\A r \in inflight \ inflight' :
        Resumed("search") /\ lastResponse' = Failed =>
          /\ lastEvent'.outcome = "threw"
          /\ currentPage' = r.seen[1].currentPage
          /\ prevDisabled' = r.seen[1].prevDisabled
          /\ nextDisabled' = r.seen[1].nextDisabled
          /\ articles' = r.seen[1].articles]_vars

\* C16: when the fetch of a search fails, the exception leaves searchArticles,
\* and the step that processes the failure changes none of currentPage, the
\* prev/next buttons and the displayed results
C16_FailureChangesNothing ==
  [][Resumed("search") /\ lastResponse' = Failed =>
       /\ lastEvent'.outcome = "threw"
       /\ lastEvent'.error = TransportError
       /\ UNCHANGED <<currentPage, prevDisabled, nextDisabled, articles>>]_vars

\* C16 witness: a failed search has just been processed while the cards of an
\* earlier response are displayed on page 1
C16_Witness ==
  /\ lastEvent = Event("search", "resume", "threw", TransportError)
  /\ lastResponse = Failed
  /\ articles.kind = "cards"
  /\ currentPage = 1

\* C18: whenever a search response sets currentPage and a list is displayed
\* afterwards, the list was rendered from that same response, so in every state
\* the displayed list and currentPage come from the same response
C18_SameResponse ==
  [][\A r \in inflight \ inflight' :
        Resumed("search") /\ HasPageInfo(lastResponse') /\ articles'.kind = "cards" =>
          articles' = Content("cards", "", r.inv)]_vars

\* the request r asks for the page delta away from the currentPage it was issued
\* at: it is, or is indistinguishable from, the request of changePage('prev')
\* for delta = -1 and of changePage of another direction for delta = 1
NavRequest(r, delta) ==
  /\ r.op = "search"
  /\ r.page = r.seen[1].currentPage + delta

\* C19 as stated: two page-nav requests in the same direction, the second issued
\* while the first is still pending, ask for the same page
C19_SamePage ==
  \A r1, r2 \in inflight : \A delta \in {-1, 1} :
    r1.inv < r2.inv /\ NavRequest(r1, delta) /\ NavRequest(r2, delta) =>
      r1.page = r2.page

\* C19: two page-nav requests in the same direction, the second issued while
\* the first is still pending and with no response processed between the two
\* clicks, ask for the same page
C19_SamePageUndisturbed ==
  \A r1, r2 \in inflight : \A delta \in {-1, 1} :
    /\ r1.inv < r2.inv /\ NavRequest(r1, delta) /\ NavRequest(r2, delta)
    /\ r1.seen[1].settled = r2.seen[1].settled
    => r1.page = r2.page

\* C19 witness: after a response set currentPage to 1, two next requests are
\* pending, issued with nothing processed between them, both for page 2
C19_Witness ==
  /\ currentPage = 1
  /\ \E r1, r2 \in inflight :
       /\ r1.inv < r2.inv /\ NavRequest(r1, 1) /\ NavRequest(r2, 1)
       /\ r1.seen[1].settled = r2.seen[1].settled
       /\ r1.page = 2 /\ r2.page = 2
====
